---- MODULE Spec2Model ----
(***************************************************************************)
(* Model of src/task/10-katas-1-tasks.js: the five exported katas.  A run  *)
(* is one call of one exported function; `call` names the function and the *)
(* remaining variables hold the locals of that call.  Strings that are     *)
(* scanned character by character (brace templates) are sequences of       *)
(* one-character strings; compass labels are TLA+ strings built with \o.   *)
(***************************************************************************)
EXTENDS Integers, Sequences, FiniteSets, Bags, TLC

VARIABLES call, pc, str, arr, out, lastNext, i, j, result, points, n, matrix, err,
          gens, heap, nextCalls, seen, dominoes, canRow, nums, ranges

vars == <<call, pc, str, arr, out, lastNext, i, j, result, points, n, matrix, err,
          gens, heap, nextCalls, seen, dominoes, canRow, nums, ranges>>

\* the arguments and return values of canDominoesMakeRow and extractRanges
stubVars == <<dominoes, canRow, nums, ranges>>

\* history of one generator: the number of arr.next() calls made so far and
\* the (group, alternative) selections the yielded strings were built from
histVars == <<nextCalls, seen>>

\* ---------------------------------------------------------------- bounds
MaxLen == 6
MaxN == 4
MaxLenTwo == 4
MaxTiles == 2

Alphabet == {"a", "b", ",", "{", "}"}

\* ------------------------------------------------ expandBraces: templates
Count(s, c) == Cardinality({k \in 1..Len(s) : s[k] = c})

Depth(s, k) == Cardinality({x \in 1..k : s[x] = "{"}) - Cardinality({x \in 1..k : s[x] = "}"})

Balanced(s) == /\ Depth(s, Len(s)) = 0
               /\ \A k \in 1..Len(s) : Depth(s, k) >= 0

Templates == {s \in UNION {[1..k -> Alphabet] : k \in 0..MaxLen} : Balanced(s)}

\* longer templates shaped like the documented examples of expandBraces
LongTemplates ==
    { <<"{", "a", ",", "b", "}", "{", ",", "a", "}">>,
      <<"a", "{", "b", ",", "a", "{", "b", ",", "}", "a", "}">>,
      <<"{", "{", "a", ",", "b", "}", "a", ",", "b", "}", "{", "b", ",", "}", ",">> }

\* ------------------------------------------------ expandBraces: the parse
StrItem(value) == [kind |-> "str", text |-> value, alts |-> <<>>, position |-> 0]

\* a mutation of VarItem: a group starts at its last alternative
VarItemStartLast(values) ==
    [kind |-> "var", text |-> <<>>, alts |-> values, position |-> Len(values) - 1]

VarItem(values) == [kind |-> "var", text |-> <<>>, alts |-> values, position |-> 0]

RECURSIVE GetArrayScan(_, _, _, _, _, _)
RECURSIVE GetVariantsScan(_, _, _, _, _)
RECURSIVE GetVariants(_)
RECURSIVE ArrCurrentFrom(_, _)
RECURSIVE VarCurrent(_)
RECURSIVE ArrNextFrom(_, _)
RECURSIVE VarNext(_)

\* a mutation of GetArrayEnd: the test of `value` is lost
GetArrayEndOnlyAddEmpty(values, value, addEmpty) ==
    IF addEmpty THEN Append(values, StrItem(value)) ELSE values

\* getArray's end of scan: if (value || addEmpty) values.push(value)
GetArrayEnd(values, value, addEmpty) ==
    IF value # <<>> \/ addEmpty THEN Append(values, StrItem(value)) ELSE values

\* a mutation of PushLiteral: the literal in front of a group is dropped
PushLiteralDrop(values, value) == values

\* getArray at a top-level '{': if (value) values.push(value)
PushLiteral(values, value) ==
    IF value # <<>> THEN Append(values, StrItem(value)) ELSE values

\* getArray's for loop, iteration i (1-based) with the locals values, value, skip
GetArrayScan(s, addEmpty, k, values, value, skip) ==
    IF k > Len(s) THEN GetArrayEnd(values, value, addEmpty)
    ELSE IF s[k] = "}" THEN
        IF skip - 1 = 0
        THEN GetArrayScan(s, addEmpty, k + 1,
                 Append(values, GetVariants(value)), <<>>, skip - 1)
        ELSE GetArrayScan(s, addEmpty, k + 1, values, Append(value, s[k]), skip - 1)
    ELSE IF s[k] = "{" THEN
        IF skip = 0
        THEN GetArrayScan(s, addEmpty, k + 1,
                 PushLiteral(values, value), <<>>, skip + 1)
        ELSE GetArrayScan(s, addEmpty, k + 1, values, Append(value, s[k]), skip + 1)
    ELSE GetArrayScan(s, addEmpty, k + 1, values, Append(value, s[k]), skip)

\* new getArray(str, addEmpty): the object is its closure variable `values`
GetArray(s, addEmpty) == GetArrayScan(s, addEmpty, 1, <<>>, <<>>, 0)

\* a mutation of GetVariantsScan: the alternative after the last comma is lost
GetVariantsScanNoTail(s, k, values, value, skip) ==
    IF k > Len(s) THEN values
    ELSE IF s[k] = "," /\ skip = 0
    THEN GetVariantsScan(s, k + 1, Append(values, GetArray(value, TRUE)), <<>>, skip)
    ELSE GetVariantsScan(s, k + 1, values, Append(value, s[k]),
             IF s[k] = "{" THEN skip + 1 ELSE IF s[k] = "}" THEN skip - 1 ELSE skip)

\* getVariants' for loop and the push after it; yields the list `values`
GetVariantsScan(s, k, values, value, skip) ==
    IF k > Len(s) THEN Append(values, GetArray(value, TRUE))
    ELSE IF s[k] = "," /\ skip = 0
    THEN GetVariantsScan(s, k + 1, Append(values, GetArray(value, TRUE)), <<>>, skip)
    ELSE GetVariantsScan(s, k + 1, values, Append(value, s[k]),
             IF s[k] = "{" THEN skip + 1 ELSE IF s[k] = "}" THEN skip - 1 ELSE skip)

\* new getVariants(str): values plus position = 0
GetVariants(s) == VarItem(GetVariantsScan(s, 1, <<>>, <<>>, 0))

\* ------------------------------------------- expandBraces: current / next
\* getArray.current, loop from item k on: result += v or v.current()
ArrCurrentFrom(values, k) ==
    IF k > Len(values) THEN <<>>
    ELSE (IF values[k].kind = "str" THEN values[k].text ELSE VarCurrent(values[k]))
         \o ArrCurrentFrom(values, k + 1)

ArrCurrent(values) == ArrCurrentFrom(values, 1)

\* getVariants.current: values[position].current()
VarCurrent(v) == ArrCurrent(v.alts[v.position + 1])

\* a mutation of VarNextStep: the last alternative of a group is never selected
VarNextStepSkipLast(v, r) ==
    LET stepped == [v EXCEPT !.alts[v.position + 1] = r.tree] IN
    IF r.ok THEN [ok |-> TRUE, tree |-> stepped]
    ELSE IF v.position + 1 < Len(v.alts) - 1
         THEN [ok |-> TRUE, tree |-> [stepped EXCEPT !.position = v.position + 1]]
         ELSE [ok |-> FALSE, tree |-> [stepped EXCEPT !.position = 0]]

\* a mutation of VarNextStep: an exhausted group keeps its last position
VarNextStepNoReset(v, r) ==
    LET stepped == [v EXCEPT !.alts[v.position + 1] = r.tree] IN
    IF r.ok THEN [ok |-> TRUE, tree |-> stepped]
    ELSE IF v.position + 1 < Len(v.alts)
         THEN [ok |-> TRUE, tree |-> [stepped EXCEPT !.position = v.position + 1]]
         ELSE [ok |-> FALSE, tree |-> stepped]

\* getVariants.next given the outcome r of values[position].next()
VarNextStep(v, r) ==
    LET stepped == [v EXCEPT !.alts[v.position + 1] = r.tree] IN
    IF r.ok THEN [ok |-> TRUE, tree |-> stepped]
    ELSE IF v.position + 1 < Len(v.alts)
         THEN [ok |-> TRUE, tree |-> [stepped EXCEPT !.position = v.position + 1]]
         ELSE [ok |-> FALSE, tree |-> [stepped EXCEPT !.position = 0]]

\* a mutation of ArrNextFrom: the carry is not passed to the next group
ArrNextFromNoCarry(values, k) ==
    IF k > Len(values) THEN [ok |-> FALSE, tree |-> values]
    ELSE IF values[k].kind = "str" THEN ArrNextFrom(values, k + 1)
    ELSE LET r == VarNext(values[k])
         IN  [ok |-> r.ok, tree |-> [values EXCEPT ![k] = r.tree]]

\* getArray.next, loop from item k on: the first group whose next() is true
\* ends the loop; a group whose next() is false has been reset on the way
ArrNextFrom(values, k) ==
    IF k > Len(values) THEN [ok |-> FALSE, tree |-> values]
    ELSE IF values[k].kind = "str" THEN ArrNextFrom(values, k + 1)
    ELSE LET r == VarNext(values[k])
             stepped == [values EXCEPT ![k] = r.tree]
         IN  IF r.ok THEN [ok |-> TRUE, tree |-> stepped]
             ELSE ArrNextFrom(stepped, k + 1)

ArrNext(values) == ArrNextFrom(values, 1)

\* getVariants.next: values[position].next() first, then the position
VarNext(v) == VarNextStep(v, ArrNext(v.alts[v.position + 1]))

\* ---------------------------------------------------- createCompassPoints
Sides == <<"N", "E", "S", "W">>

\* sides[k] of the 0-based array
Side(k) == Sides[k + 1]

Abs(x) == IF x < 0 THEN -x ELSE x

\* a mutation of From: every cardinal gets the 5 offsets on each side
FromAlways5(ci) == 5

\* a mutation of From: the ranges of N, S and of E, W are exchanged
FromSwapped(ci) == IF ci % 2 # 0 THEN 5 ELSE 2

\* const from = i % 2 ? 2 : 5
From(ci) == IF ci % 2 # 0 THEN 2 ELSE 5

\* pos = (i * 8 + j + 32) % 32
Pos(ci, cj) == (ci * 8 + cj + 32) % 32

\* a mutation of Posi: previous and next neighbour are swapped
PosiSwapped(ci, cj) == (ci + (IF cj < 0 THEN 1 ELSE -1) + 4) % 4

\* posi = (i + (j < 0 ? -1 : 1) + 4) % 4
Posi(ci, cj) == (ci + (IF cj < 0 THEN -1 ELSE 1) + 4) % 4

\* a mutation of Suffix: the 'by' forms of magnitude 3 and 5 are exchanged
SuffixBySwapped(ci, cj) ==
    LET ja == Abs(cj)
        posi == Posi(ci, cj)
    IN  IF ja % 2 # 0
        THEN (IF ja > 1 THEN Side(posi) ELSE "") \o "b" \o
             (IF ja = 5 THEN Side(ci) ELSE Side(posi))
        ELSE IF ja = 4 THEN Side(posi)
             ELSE IF ci % 2 # 0 THEN Side(posi) \o Side(ci) ELSE Side(ci) \o Side(posi)

\* the text appended to sides[i] when j is not 0
Suffix(ci, cj) ==
    LET ja == Abs(cj)
        posi == Posi(ci, cj)
    IN  IF ja % 2 # 0
        THEN (IF ja > 1 THEN Side(posi) ELSE "") \o "b" \o
             (IF ja = 3 THEN Side(ci) ELSE Side(posi))
        ELSE IF ja = 4 THEN Side(posi)
             ELSE IF ci % 2 # 0 THEN Side(posi) \o Side(ci) ELSE Side(ci) \o Side(posi)

\* the value result[pos] has at the end of one iteration of the inner loop
Label(ci, cj) == IF cj # 0 THEN Side(ci) \o Suffix(ci, cj) ELSE Side(ci)

\* a mutation of Azimuth: the step is counted from 1
AzimuthFromOne(k) == (k + 1) * 1125

\* azimuth: i * 11.25, in hundredths of a degree
Azimuth(k) == k * 1125

\* result[pos] = value on a sparse array: the domain is the assigned indices
Assign(a, pos, value) == [k \in (DOMAIN a) \cup {pos} |-> IF k = pos THEN value ELSE a[k]]

\* result.map((v, i) => ({abbreviation: v, azimuth: i * 11.25}))
MapPoints(a) == [k \in DOMAIN a |-> [abbreviation |-> a[k], azimuth |-> Azimuth(k)]]

\* --------------------------------------- inputs of the unimplemented katas
Pips == 0..2

Tiles == {<<x, y>> : x \in Pips, y \in Pips}

\* the documented examples of canDominoesMakeRow
DominoExamples ==
    { << <<0, 1>>, <<1, 1>> >>,
      << <<1, 1>>, <<2, 2>>, <<1, 5>>, <<5, 6>>, <<6, 3>> >>,
      << <<1, 3>>, <<2, 3>>, <<1, 4>>, <<2, 4>>, <<1, 5>>, <<2, 5>> >> }

DominoInputs == UNION {[1..k -> Tiles] : k \in 0..MaxTiles} \cup DominoExamples

RECURSIVE Ascending(_)
\* the elements of a finite set of integers in ascending order
Ascending(S) ==
    IF S = {} THEN <<>>
    ELSE LET m == CHOOSE x \in S : \A y \in S : x <= y IN <<m>> \o Ascending(S \ {m})

\* the documented examples of extractRanges and every ascending list over 0..5
RangeInputs ==
    {Ascending(S) : S \in SUBSET (0..5)} \cup {<<0, 1, 2, 5, 7, 8, 9>>, <<1, 4, 5>>}

\* ------------------------------------- history read off the cursor tree
RECURSIVE Selected(_, _)
\* the <<path, position>> pairs of the groups that values.current() reads
Selected(values, path) ==
    UNION { IF values[k].kind = "str" THEN {}
            ELSE {<<Append(path, k), values[k].position>>}
                 \cup Selected(values[k].alts[values[k].position + 1],
                               path \o <<k, values[k].position>>)
            : k \in 1..Len(values) }

\* the strings one generator yields for the template s when pulled alone
RECURSIVE EnumerateFrom(_, _)
EnumerateFrom(values, acc) ==
    LET r == ArrNext(values) IN
    IF r.ok THEN EnumerateFrom(r.tree, Append(acc, ArrCurrent(r.tree))) ELSE acc

Enumerate(s) == EnumerateFrom(GetArray(s, FALSE), <<ArrCurrent(GetArray(s, FALSE))>>)

\* -------------------------------------------------------------- the calls

Init ==
    /\ call \in {"createCompassPoints", "expandBraces", "getZigZagMatrix",
                 "canDominoesMakeRow", "extractRanges"}
    /\ pc = (IF call = "expandBraces" THEN "created"
             ELSE IF call = "createCompassPoints" THEN "loop" ELSE "called")
    /\ str \in (IF call = "expandBraces" THEN Templates \cup LongTemplates ELSE {<<>>})
    /\ arr = <<>>
    /\ out = <<>>
    /\ lastNext = TRUE
    /\ i = 0
    /\ j = (IF call = "createCompassPoints" THEN -From(0) ELSE 0)
    /\ result = <<>>
    /\ points = <<>>
    /\ n \in (IF call = "getZigZagMatrix" THEN 1..MaxN ELSE {0})
    /\ matrix = <<>>
    /\ err = ""
    /\ gens = <<>>
    /\ heap = <<>>
    /\ nextCalls = 0
    /\ seen = {}
    /\ dominoes \in (IF call = "canDominoesMakeRow" THEN DominoInputs ELSE {<<>>})
    /\ canRow = FALSE
    /\ nums \in (IF call = "extractRanges" THEN RangeInputs ELSE {<<>>})
    /\ ranges = ""

\* a mutation of GenStart: the whole expansion is built at the first pull
GenStartEager ==
    /\ call = "expandBraces" /\ pc = "created"
    /\ arr' = GetArray(str, FALSE)
    /\ out' = Enumerate(str)
    /\ pc' = "suspended"
    /\ nextCalls' = nextCalls
    /\ seen' = Selected(arr', <<>>)
    /\ UNCHANGED <<call, str, lastNext, i, j, result, points, n, matrix, err, gens, heap, stubVars>>

\* first pull: let arr = new getArray(str, false); yield arr.current()
GenStart ==
    /\ call = "expandBraces" /\ pc = "created"
    /\ arr' = GetArray(str, FALSE)
    /\ out' = Append(out, ArrCurrent(arr'))
    /\ pc' = "suspended"
    /\ nextCalls' = nextCalls
    /\ seen' = Selected(arr', <<>>)
    /\ UNCHANGED <<call, str, lastNext, i, j, result, points, n, matrix, err, gens, heap, stubVars>>

\* later pull: while (arr.next()) yield arr.current(); otherwise done
GenResume ==
    /\ call = "expandBraces" /\ pc = "suspended"
    /\ LET r == ArrNext(arr) IN
         /\ arr' = r.tree
         /\ lastNext' = r.ok
         /\ nextCalls' = nextCalls + 1
         /\ IF r.ok
            THEN /\ out' = Append(out, ArrCurrent(r.tree))
                 /\ seen' = seen \cup Selected(r.tree, <<>>)
                 /\ pc' = "suspended"
            ELSE /\ out' = out
                 /\ seen' = seen
                 /\ pc' = "done"
    /\ UNCHANGED <<call, str, i, j, result, points, n, matrix, err, gens, heap, stubVars>>

\* one iteration of the inner loop of createCompassPoints, then j++ and,
\* at the end of the inner loop, i++ with j = -from
CompassStep ==
    /\ call = "createCompassPoints" /\ pc = "loop"
    /\ result' = Assign(result, Pos(i, j), Label(i, j))
    /\ IF j + 1 <= From(i)
       THEN /\ j' = j + 1 /\ i' = i /\ pc' = "loop"
       ELSE IF i + 1 < 4
            THEN /\ i' = i + 1 /\ j' = -From(i + 1) /\ pc' = "loop"
            ELSE /\ i' = i + 1 /\ j' = j + 1 /\ pc' = "map"
    /\ UNCHANGED <<call, str, arr, out, lastNext, points, n, matrix, err, gens, heap, histVars, stubVars>>

\* return result.map(...)
CompassReturn ==
    /\ call = "createCompassPoints" /\ pc = "map"
    /\ points' = MapPoints(result)
    /\ pc' = "returned"
    /\ UNCHANGED <<call, str, arr, out, lastNext, i, j, result, n, matrix, err, gens, heap, histVars, stubVars>>

\* getZigZagMatrix(n): throw new Error('Not implemented')
GetZigZagMatrix ==
    /\ call = "getZigZagMatrix" /\ pc = "called"
    /\ err' = "Not implemented"
    /\ pc' = "thrown"
    /\ UNCHANGED <<call, str, arr, out, lastNext, i, j, result, points, n, matrix, gens, heap, histVars, stubVars>>

\* a mutation of CanDominoesMakeRow: the stub returns instead of throwing
CanDominoesMakeRowReturns ==
    /\ call = "canDominoesMakeRow" /\ pc = "called"
    /\ canRow' = TRUE
    /\ pc' = "returned"
    /\ UNCHANGED <<call, str, arr, out, lastNext, i, j, result, points, n, matrix, err,
                   gens, heap, histVars, dominoes, nums, ranges>>

\* canDominoesMakeRow(dominoes): throw new Error('Not implemented')
CanDominoesMakeRow ==
    /\ call = "canDominoesMakeRow" /\ pc = "called"
    /\ err' = "Not implemented"
    /\ pc' = "thrown"
    /\ UNCHANGED <<call, str, arr, out, lastNext, i, j, result, points, n, matrix,
                   gens, heap, histVars, stubVars>>

\* extractRanges(nums): throw new Error('Not implemented')
ExtractRanges ==
    /\ call = "extractRanges" /\ pc = "called"
    /\ err' = "Not implemented"
    /\ pc' = "thrown"
    /\ UNCHANGED <<call, str, arr, out, lastNext, i, j, result, points, n, matrix,
                   gens, heap, histVars, stubVars>>

Next ==
    \/ GenStart \/ GenResume \/ CompassStep \/ CompassReturn
    \/ GetZigZagMatrix \/ CanDominoesMakeRow \/ ExtractRanges

Spec == Init /\ [][Next]_vars

\* the caller pulls until the generator reports done
FairSpec == Spec /\ WF_vars(Next)

\* ------------------------------------- two generators, pulled in any order
TwoTemplates == {s \in Templates : Len(s) <= MaxLenTwo}

OtherTemplates ==
    { <<"a">>,
      <<"{", "a", ",", "b", "}">>,
      <<"{", ",", "a", "}", "{", "b", ",", "}">>,
      <<"{", "a", "{", "b", ",", "}", ",", "}">> }

\* a mutation of NewObject: one cursor tree is kept for all the calls
NewObjectReused(h) == 1

\* `new getArray(str, false)` in a call: an object no other call refers to
NewObject(h) == Len(h) + 1

Store(h, ref, tree) == [k \in (DOMAIN h) \cup {ref} |-> IF k = ref THEN tree ELSE h[k]]

InitTwo ==
    /\ call = "expandBraces twice"
    /\ pc = "idle"
    /\ str = <<>> /\ arr = <<>> /\ out = <<>> /\ lastNext = TRUE
    /\ i = 0 /\ j = 0 /\ result = <<>> /\ points = <<>>
    /\ n = 0 /\ matrix = <<>> /\ err = ""
    /\ \E s \in TwoTemplates : \E t \in OtherTemplates \cup {s} :
          gens = << [str |-> s, pc |-> "created", ref |-> 0, out |-> <<>>],
                    [str |-> t, pc |-> "created", ref |-> 0, out |-> <<>>] >>
    /\ heap = <<>>
    /\ nextCalls = 0 /\ seen = {}
    /\ dominoes = <<>> /\ canRow = FALSE /\ nums = <<>> /\ ranges = ""

\* first pull of generator g
TwoStart(g) ==
    /\ call = "expandBraces twice" /\ gens[g].pc = "created"
    /\ LET ref == NewObject(heap)
           tree == GetArray(gens[g].str, FALSE)
       IN  /\ heap' = Store(heap, ref, tree)
           /\ gens' = [gens EXCEPT ![g] = [str |-> gens[g].str, pc |-> "suspended", ref |-> ref,
                                           out |-> Append(gens[g].out, ArrCurrent(tree))]]
    /\ UNCHANGED <<call, pc, str, arr, out, lastNext, i, j, result, points, n, matrix, err, histVars, stubVars>>

\* later pull of generator g
TwoResume(g) ==
    /\ call = "expandBraces twice" /\ gens[g].pc = "suspended"
    /\ LET r == ArrNext(heap[gens[g].ref]) IN
         /\ heap' = Store(heap, gens[g].ref, r.tree)
         /\ gens' = [gens EXCEPT ![g] =
                [str |-> gens[g].str, ref |-> gens[g].ref,
                 pc |-> IF r.ok THEN "suspended" ELSE "done",
                 out |-> IF r.ok THEN Append(gens[g].out, ArrCurrent(r.tree)) ELSE gens[g].out]]
    /\ UNCHANGED <<call, pc, str, arr, out, lastNext, i, j, result, points, n, matrix, err, histVars, stubVars>>

NextTwo == \E g \in {1, 2} : TwoStart(g) \/ TwoResume(g)

SpecTwo == InitTwo /\ [][NextTwo]_vars

\* ----------------------- one cursor tree, current() and next() in any order
InitCursor ==
    /\ call = "cursor"
    /\ pc = "parsed"
    /\ str \in Templates \cup LongTemplates
    /\ arr = GetArray(str, FALSE)
    /\ out = <<>> /\ lastNext = TRUE
    /\ i = 0 /\ j = 0 /\ result = <<>> /\ points = <<>>
    /\ n = 0 /\ matrix = <<>> /\ err = ""
    /\ gens = <<>> /\ heap = <<>>
    /\ nextCalls = 0 /\ seen = {}
    /\ dominoes = <<>> /\ canRow = FALSE /\ nums = <<>> /\ ranges = ""

\* arr.current(): `out` keeps the string read since the last arr.next()
CursorCurrent ==
    /\ call = "cursor"
    /\ out' = <<ArrCurrent(arr)>>
    /\ pc' = "read"
    /\ UNCHANGED <<call, str, arr, lastNext, i, j, result, points, n, matrix, err,
                   gens, heap, histVars, stubVars>>

\* arr.next(): `lastNext` keeps what it returned
CursorNext ==
    /\ call = "cursor"
    /\ LET r == ArrNext(arr) IN
         /\ arr' = r.tree
         /\ lastNext' = r.ok
    /\ out' = <<>>
    /\ pc' = "moved"
    /\ UNCHANGED <<call, str, i, j, result, points, n, matrix, err,
                   gens, heap, histVars, stubVars>>

NextCursor == CursorCurrent \/ CursorNext

SpecCursor == InitCursor /\ [][NextCursor]_vars

\* ------------------------------------------- reference brace expansion
\* The reference works on the template text by rewriting, not on cursors:
\* the first group of the text is replaced by each of its alternatives in
\* turn and the resulting texts are expanded again.
NoBraces(s) == \A k \in 1..Len(s) : s[k] \notin {"{", "}"}

FirstOpen(s) == CHOOSE p \in 1..Len(s) : s[p] = "{" /\ \A x \in 1..(p - 1) : s[x] # "{"

MatchClose(s, p) ==
    CHOOSE q \in (p + 1)..Len(s) :
        /\ Depth(s, q) = Depth(s, p - 1)
        /\ \A x \in p..(q - 1) : Depth(s, x) > Depth(s, p - 1)

\* the positions that delimit the alternatives of the group text g
Cuts(g) == {0, Len(g) + 1} \cup {k \in 1..Len(g) : g[k] = "," /\ Depth(g, k) = 0}

NextCut(g, c) == CHOOSE d \in Cuts(g) : d > c /\ \A e \in Cuts(g) : e > c => d <= e

AltAt(g, c) == SubSeq(g, c + 1, NextCut(g, c) - 1)

AltStarts(g) == Cuts(g) \ {Len(g) + 1}

RECURSIVE RefExpand(_)
RECURSIVE RefExpandAlts(_, _, _, _)
RECURSIVE RefCount(_)
RECURSIVE RefCountAlts(_, _)

RefExpandAlts(pre, g, post, starts) ==
    IF starts = {} THEN EmptyBag
    ELSE LET c == CHOOSE x \in starts : TRUE IN
         RefExpand(pre \o AltAt(g, c) \o post) (+) RefExpandAlts(pre, g, post, starts \ {c})

RefExpand(s) ==
    IF NoBraces(s) THEN SetToBag({s})
    ELSE LET p == FirstOpen(s)
             q == MatchClose(s, p)
         IN  RefExpandAlts(SubSeq(s, 1, p - 1), SubSeq(s, p + 1, q - 1),
                           SubSeq(s, q + 1, Len(s)), AltStarts(SubSeq(s, p + 1, q - 1)))

RefCountAlts(g, starts) ==
    IF starts = {} THEN 0
    ELSE LET c == CHOOSE x \in starts : TRUE IN
         RefCount(AltAt(g, c)) + RefCountAlts(g, starts \ {c})

\* count of a sequence = product of the counts of the groups directly in
\* it; count of a group = sum of the counts of its alternatives
RefCount(s) ==
    IF NoBraces(s) THEN 1
    ELSE LET p == FirstOpen(s)
             q == MatchClose(s, p)
             g == SubSeq(s, p + 1, q - 1)
         IN  RefCountAlts(g, AltStarts(g)) * RefCount(SubSeq(s, q + 1, Len(s)))

OutBag == [e \in {out[k] : k \in 1..Len(out)} |-> Cardinality({k \in 1..Len(out) : out[k] = e})]

Nested(s) == \E k \in 1..Len(s) : Depth(s, k) >= 2

\* ---------------------------------------------------------------- claims
\* C1: for every balanced template, the multiset of strings yielded by a
\* complete enumeration equals the multiset of the reference expansion
\* (one alternative per group met, nested groups of the chosen alternative
\* expanded recursively, all literal text kept in place).
C1_ExpansionMatchesReference ==
    (call = "expandBraces" /\ pc = "done") => OutBag = RefExpand(str)

C1_Witness ==
    /\ call = "expandBraces" /\ pc = "done"
    /\ Nested(str) /\ Len(out) >= 2 /\ out[1] # out[2]

\* C2: a template without '{' and '}' (the empty one and ones with commas
\* included) yields exactly one string, the template itself, and is done
\* at the next pull.
C2_NoGroupsYieldsInput ==
    (call = "expandBraces" /\ NoBraces(str)) =>
        \/ pc = "created" /\ out = <<>>
        \/ pc = "suspended" /\ out = <<str>> /\ lastNext = TRUE
        \/ pc = "done" /\ out = <<str>> /\ lastNext = FALSE

C2_Witness ==
    /\ call = "expandBraces" /\ pc = "done" /\ NoBraces(str)
    /\ Count(str, ",") >= 1 /\ Count(str, "a") >= 1 /\ out = <<str>>

\* C3: the number of strings yielded for a balanced template is the
\* product over the groups of a sequence of the groups' counts, a group
\* counting the sum of the counts of its alternatives.
C3_OutputCount ==
    (call = "expandBraces" /\ pc = "done") => Len(out) = RefCount(str)

C3_Witness ==
    /\ call = "expandBraces" /\ pc = "done"
    /\ Count(str, "{") = 2 /\ ~Nested(str) /\ Len(out) = 4

\* C4: a{}b with brace-free a and b yields exactly a \o b, and a{d,}b with
\* a brace-free and comma-free d yields a \o d \o b and a \o b.
C4_EmptyAlternative ==
    (call = "expandBraces" /\ pc = "done") =>
        \A p \in 1..Len(str) :
            LET a == SubSeq(str, 1, p - 1) IN
            /\ (str[p] = "{" /\ NoBraces(a)) =>
                 \A q \in (p + 1)..Len(str) :
                    LET d == SubSeq(str, p + 1, q - 1)
                        b == SubSeq(str, q + 1, Len(str))
                    IN  /\ (q = p + 1 /\ str[q] = "}" /\ NoBraces(b)) => out = <<a \o b>>
                        /\ (/\ q + 1 <= Len(str) /\ str[q] = "," /\ str[q + 1] = "}"
                            /\ NoBraces(d) /\ Count(d, ",") = 0
                            /\ NoBraces(SubSeq(str, q + 2, Len(str))))
                           => OutBag = SetToBag({a \o d \o SubSeq(str, q + 2, Len(str))})
                                       (+) SetToBag({a \o SubSeq(str, q + 2, Len(str))})

C4_Witness ==
    /\ call = "expandBraces" /\ pc = "done"
    /\ str = <<"a", "{", "}", "b">> /\ out = << <<"a", "b">> >>

C4_WitnessEmptyAlt ==
    /\ call = "expandBraces" /\ pc = "done"
    /\ str = <<"a", "{", "b", ",", "}">> /\ Len(out) = 2

\* C5: every call of expandBraces has its own cursor tree: whatever the
\* other generator (same template or another one) has been pulled, and in
\* whatever interleaving, a generator yields the sequence of its template
\* from the first combination on.
C5_IndependentGenerators ==
    (call = "expandBraces twice") =>
        \A g \in {1, 2} :
            LET full == Enumerate(gens[g].str)
                got == gens[g].out
            IN  /\ Len(got) <= Len(full)
                /\ got = SubSeq(full, 1, Len(got))
                /\ (gens[g].pc = "created") <=> (got = <<>>)
                /\ (gens[g].pc = "done") => (got = full)

C5_Witness ==
    /\ call = "expandBraces twice"
    /\ gens[1].str = gens[2].str
    /\ gens[1].pc = "done" /\ Len(gens[1].out) >= 2
    /\ gens[1].out[1] # gens[1].out[2]
    /\ gens[2].pc = "suspended" /\ gens[2].out = <<gens[1].out[1]>>

\* the groups of the item list `values` cannot advance any more
RECURSIVE Exhausted(_)
Exhausted(values) ==
    \A k \in 1..Len(values) :
        values[k].kind = "var" =>
            /\ values[k].position = Len(values[k].alts) - 1
            /\ Exhausted(values[k].alts[values[k].position + 1])

\* C6: the enumeration of a balanced template is finite, yields at least
\* one string, and ends exactly when the outermost next() returns false,
\* that is when the groups up to the rightmost top-level one have all
\* carried past their last alternative.
C6_FiniteEnumeration ==
    /\ (call = "expandBraces") ~> (pc = "done")
    /\ []((call = "expandBraces" /\ pc = "done") => (Len(out) >= 1 /\ lastNext = FALSE))
    /\ []((call = "expandBraces" /\ pc = "suspended") => lastNext = TRUE)
    /\ [][(call = "expandBraces" /\ pc = "suspended") => ((pc' = "done") <=> Exhausted(arr))]_vars

C6_Witness ==
    /\ call = "expandBraces" /\ pc = "done"
    /\ Count(str, "{") >= 2 /\ Len(out) >= 2 /\ lastNext = FALSE

\* the standard 32-point table, by index 0..31
StandardTable ==
    <<"N", "NbE", "NNE", "NEbN", "NE", "NEbE", "ENE", "EbN",
      "E", "EbS", "ESE", "SEbE", "SE", "SEbS", "SSE", "SbE",
      "S", "SbW", "SSW", "SWbS", "SW", "SWbW", "WSW", "WbS",
      "W", "WbN", "WNW", "NWbW", "NW", "NWbN", "NNW", "NbW">>

Returned == call = "createCompassPoints" /\ pc = "returned"

\* C7: createCompassPoints returns exactly 32 entries, none undefined;
\* entry k has azimuth 11.25 * k (1125 * k hundredths); entries 0, 8, 16
\* and 24 are N, E, S and W at 0, 90, 180 and 270 degrees.
C7_ThirtyTwoPoints ==
    Returned =>
        /\ DOMAIN points = 0..31
        /\ \A k \in 0..31 : points[k].azimuth = 1125 * k
        /\ points[0] = [abbreviation |-> "N", azimuth |-> 0]
        /\ points[8] = [abbreviation |-> "E", azimuth |-> 9000]
        /\ points[16] = [abbreviation |-> "S", azimuth |-> 18000]
        /\ points[24] = [abbreviation |-> "W", azimuth |-> 27000]
        /\ points[31].azimuth = 34875

C7_Witness == Returned /\ Cardinality(DOMAIN points) = 32 /\ points[31].azimuth = 34875

\* C8: the abbreviations in index order are the standard 32-point table,
\* and the 32 labels are pairwise distinct.
C8_StandardTable ==
    Returned =>
        /\ DOMAIN points = 0..31
        /\ \A k \in 0..31 : points[k].abbreviation = StandardTable[k + 1]
        /\ \A k, m \in 0..31 : k # m => points[k].abbreviation # points[m].abbreviation

C8_Witness == Returned /\ points[11].abbreviation = "SEbE" /\ points[29].abbreviation = "NWbN"

\* C9 as stated: index 1 is NbE, index 4 is NNE and index 5 is NEbN.
C9_Original ==
    Returned =>
        /\ points[1].abbreviation = "NbE"
        /\ points[4].abbreviation = "NNE"
        /\ points[5].abbreviation = "NEbN"

\* C9 (amended): index 1 is NbE, index 2 is NNE and index 3 is NEbN;
\* index 4 is NE and index 5 is NEbE.
C9_Amended ==
    Returned =>
        /\ points[1].abbreviation = "NbE"
        /\ points[2].abbreviation = "NNE"
        /\ points[3].abbreviation = "NEbN"
        /\ points[4].abbreviation = "NE"
        /\ points[5].abbreviation = "NEbE"

C9_Witness == Returned /\ points[2] = [abbreviation |-> "NNE", azimuth |-> 2250]

\* the documented results of getZigZagMatrix for n = 1..4
ZigZagExamples ==
    << << <<0>> >>,
       << <<0, 1>>, <<2, 3>> >>,
       << <<0, 1, 5>>, <<2, 4, 6>>, <<3, 7, 8>> >>,
       << <<0, 1, 5, 6>>, <<2, 4, 7, 12>>, <<3, 8, 11, 13>>, <<9, 10, 14, 15>> >> >>

\* C10: getZigZagMatrix(n) returns an n-by-n matrix holding every integer
\* of 0..n*n-1 exactly once, with 0 at the top-left corner, equal to the
\* documented matrices for n = 1, 2, 3, 4.
C10_ZigZagMatrix ==
    (call = "getZigZagMatrix" /\ pc # "called") =>
        /\ pc = "returned" /\ err = ""
        /\ Len(matrix) = n
        /\ \A r \in 1..n : Len(matrix[r]) = n
        /\ \A v \in 0..(n * n - 1) :
              Cardinality({rc \in (1..n) \X (1..n) : matrix[rc[1]][rc[2]] = v}) = 1
        /\ matrix[1][1] = 0
        /\ n <= 4 => matrix = ZigZagExamples[n]

\* ------------------------------------------------ canDominoesMakeRow
\* the number of tile ends of the list d that show the value v
Degree(d, v) ==
    Cardinality({k \in 1..Len(d) : d[k][1] = v}) + Cardinality({k \in 1..Len(d) : d[k][2] = v})

TileValues(d) == {d[k][1] : k \in 1..Len(d)} \cup {d[k][2] : k \in 1..Len(d)}

RECURSIVE Reach(_, _)
\* the values joined to the set S by tiles of d
Reach(d, S) ==
    LET T == S \cup {d[k][1] : k \in {m \in 1..Len(d) : d[m][2] \in S}}
               \cup {d[k][2] : k \in {m \in 1..Len(d) : d[m][1] \in S}}
    IN  IF T = S THEN S ELSE Reach(d, T)

\* the tiles of d can be laid in one row
CanChain(d) ==
    \/ d = <<>>
    \/ /\ Reach(d, {d[1][1]}) = TileValues(d)
       /\ Cardinality({v \in TileValues(d) : Degree(d, v) % 2 = 1}) <= 2

\* C11: canDominoesMakeRow returns a boolean, true exactly when the tiles,
\* as edges of a multigraph, are connected and have at most two values of
\* odd degree; the empty list and single tiles give true.
C11_DominoRow ==
    (call = "canDominoesMakeRow" /\ pc # "called") =>
        /\ pc = "returned" /\ err = ""
        /\ canRow = CanChain(dominoes)
        /\ Len(dominoes) <= 1 => canRow = TRUE

\* ------------------------------------------------------ extractRanges
\* the last index of the run of consecutive integers that starts at index k
RunEnd(a, k) ==
    CHOOSE e \in k..Len(a) :
        /\ \A m \in k..e : a[m] - a[k] = m - k
        /\ e < Len(a) => a[e + 1] # a[e] + 1

RECURSIVE RangeText(_, _)
\* the range notation of a[k..]: runs of three or more as 'start-end'
RangeText(a, k) ==
    IF k > Len(a) THEN ""
    ELSE LET e == RunEnd(a, k)
             long == e - k + 1 >= 3
             last == IF long THEN e ELSE k
             item == IF long THEN ToString(a[k]) \o "-" \o ToString(a[e]) ELSE ToString(a[k])
         IN  IF last = Len(a) THEN item ELSE item \o "," \o RangeText(a, last + 1)

\* C12: for a strictly ascending list, extractRanges returns the text in
\* which each maximal run of three or more consecutive integers is written
\* 'start-end' and shorter runs as their integers, comma separated.
C12_RangeText ==
    (call = "extractRanges" /\ pc # "called") =>
        /\ pc = "returned" /\ err = ""
        /\ ranges = RangeText(nums, 1)
        /\ nums = <<1, 2, 4, 5>> => ranges = "1,2,4,5"
        /\ nums = <<0, 1, 2, 5, 7, 8, 9>> => ranges = "0-2,5,7-9"

RECURSIVE AllZero(_)
\* every group of the item list, selected or not, is at position 0
AllZero(values) ==
    \A k \in 1..Len(values) :
        values[k].kind = "var" =>
            /\ values[k].position = 0
            /\ \A a \in 1..Len(values[k].alts) : AllZero(values[k].alts[a])

RECURSIVE InRange(_)
\* every group of the item list has an alternative at its position
InRange(values) ==
    \A k \in 1..Len(values) :
        values[k].kind = "var" =>
            /\ Len(values[k].alts) >= 1
            /\ 0 <= values[k].position /\ values[k].position < Len(values[k].alts)
            /\ \A a \in 1..Len(values[k].alts) : InRange(values[k].alts[a])

RECURSIVE SelectedArrays(_)
\* the item lists whose next() a call of values.next() can reach
SelectedArrays(values) ==
    {values} \cup UNION { IF values[k].kind = "str" THEN {}
                          ELSE SelectedArrays(values[k].alts[values[k].position + 1])
                          : k \in 1..Len(values) }

SelectedGroups(values) ==
    UNION { {T[k] : k \in {m \in 1..Len(T) : T[m].kind = "var"}} : T \in SelectedArrays(values) }

GroupIndexes(values) == {k \in 1..Len(values) : values[k].kind = "var"}

RECURSIVE CarrySeq(_, _)
RECURSIVE CarryGroup(_, _)
\* post is pre with one position incremented, everything left of it at zero
CarrySeq(pre, post) ==
    /\ Len(post) = Len(pre)
    /\ \E k \in GroupIndexes(pre) :
          /\ CarryGroup(pre[k], post[k])
          /\ \A m \in 1..Len(pre) :
                /\ (m < k /\ m \in GroupIndexes(pre)) =>
                      (post[m].kind = "var" /\ Len(post[m].alts) = Len(pre[m].alts)
                       /\ AllZero(<<post[m]>>))
                /\ (m > k \/ m \notin GroupIndexes(pre)) => post[m] = pre[m]

CarryGroup(g, h) ==
    /\ h.kind = "var" /\ Len(h.alts) = Len(g.alts)
    /\ \/ /\ h.position = g.position
          /\ CarrySeq(g.alts[g.position + 1], h.alts[h.position + 1])
          /\ \A a \in 1..Len(g.alts) : a # g.position + 1 => h.alts[a] = g.alts[a]
       \/ /\ h.position = g.position + 1
          /\ \A a \in 1..Len(h.alts) : AllZero(h.alts[a])

\* C18: when next() of a sequence or of a group returns false, every
\* position of that subtree is 0 again and current() is what it was after
\* parsing; when it returns true, exactly one position of the subtree was
\* incremented and the groups left of it or nested below it are at 0.
C18_ResetOnCarry ==
    (call = "cursor") =>
        /\ \A T \in SelectedArrays(arr) :
              LET r == ArrNext(T) IN
              IF r.ok THEN CarrySeq(T, r.tree)
              ELSE AllZero(r.tree)
        /\ \A g \in SelectedGroups(arr) :
              LET r == VarNext(g) IN
              IF r.ok THEN CarryGroup(g, r.tree) ELSE AllZero(<<r.tree>>)
        /\ (pc = "moved" /\ ~lastNext) =>
              (AllZero(arr) /\ arr = GetArray(str, FALSE)
               /\ ArrCurrent(arr) = ArrCurrent(GetArray(str, FALSE)))

C18_Witness ==
    /\ call = "cursor" /\ pc = "moved" /\ ~lastNext
    /\ Nested(str) /\ Cardinality(GroupIndexes(arr)) >= 2 /\ AllZero(arr)

\* C19: in every state reached by current() and next() calls on a parsed
\* balanced template, every group has at least one alternative and its
\* position p satisfies 0 <= p < number of alternatives.
C19_PositionInRange == (call = "cursor") => InRange(arr)

C19_Witness ==
    /\ call = "cursor" /\ pc = "read" /\ lastNext
    /\ \E k \in GroupIndexes(arr) : arr[k].position = Len(arr[k].alts) - 1 /\ arr[k].position >= 1

\* ------------------------------------------------------ odometer order
RECURSIVE OdoSeq(_, _)
RECURSIVE OdoGroup(_, _)
\* post is pre after one advance: the leftmost group that can still advance
\* moves, the groups left of it are back at their first alternative, the
\* items right of it are untouched
OdoSeq(pre, post) ==
    LET live == {k \in GroupIndexes(pre) : ~Exhausted(<<pre[k]>>)} IN
    /\ live # {}
    /\ Len(post) = Len(pre)
    /\ LET k == CHOOSE x \in live : \A y \in live : x <= y IN
       \A m \in 1..Len(pre) :
          IF m \notin GroupIndexes(pre) \/ m > k THEN post[m] = pre[m]
          ELSE IF m < k THEN post[m].position = 0
          ELSE OdoGroup(pre[k], post[k])

\* the nested groups of the selected alternative advance before the position
OdoGroup(g, h) ==
    IF ~Exhausted(g.alts[g.position + 1])
    THEN h.position = g.position /\ OdoSeq(g.alts[g.position + 1], h.alts[h.position + 1])
    ELSE h.position = g.position + 1

\* the template is two adjacent groups and nothing else
TwoGroups(s) ==
    /\ Len(s) >= 4 /\ s[1] = "{"
    /\ LET q == MatchClose(s, 1) IN
         q < Len(s) /\ s[q + 1] = "{" /\ MatchClose(s, q + 1) = Len(s)

\* C13: one advance moves the leftmost group of a sequence that can still
\* advance, nested groups of the selected alternative before the group's
\* own position; exhausted groups go back to their first alternative and
\* the carry passes to the right.  With two adjacent groups the left one
\* runs through all its expansions for each expansion of the right one.
C13_Odometer ==
    /\ [][(call = "expandBraces" /\ pc = "suspended") =>
            IF Exhausted(arr) THEN pc' = "done" /\ AllZero(arr')
            ELSE pc' = "suspended" /\ OdoSeq(arr, arr')]_vars
    /\ []((call = "expandBraces" /\ pc = "done" /\ TwoGroups(str)) =>
            LET q == MatchClose(str, 1)
                left == Enumerate(SubSeq(str, 1, q))
                right == Enumerate(SubSeq(str, q + 1, Len(str)))
            IN  /\ Len(out) = Len(left) * Len(right)
                /\ \A k \in 1..Len(out) :
                      out[k] = left[((k - 1) % Len(left)) + 1] \o right[((k - 1) \div Len(left)) + 1])

C13_Witness ==
    /\ call = "expandBraces" /\ pc = "done"
    /\ str = <<"{", "a", ",", "b", "}", "{", ",", "a", "}">>
    /\ out = << <<"a">>, <<"b">>, <<"a", "a">>, <<"b", "a">> >>

\* ------------------------------------------------------------- laziness
\* C14: every pull yields exactly one string, built from the cursor
\* positions of that moment; between two consecutive yields arr.next() is
\* called exactly once, and the cursor tree changes only in a pull.
C14_Lazy ==
    /\ []((call = "expandBraces") =>
            /\ pc = "created" => (out = <<>> /\ nextCalls = 0)
            /\ pc = "suspended" =>
                  (Len(out) = nextCalls + 1 /\ out[Len(out)] = ArrCurrent(arr))
            /\ pc = "done" => Len(out) = nextCalls)
    /\ [][(call = "expandBraces") =>
            /\ Len(out') <= Len(out) + 1
            /\ SubSeq(out', 1, Len(out)) = out
            /\ nextCalls' <= nextCalls + 1
            /\ (Len(out') = Len(out) + 1 /\ pc = "suspended") => nextCalls' = nextCalls + 1
            /\ arr' # arr => (Len(out') = Len(out) + 1 \/ pc' = "done")]_vars

C14_Witness ==
    /\ call = "expandBraces" /\ pc = "suspended"
    /\ Len(out) = 3 /\ nextCalls = 2 /\ ~Exhausted(arr) /\ Nested(str)

\* ------------------------------------------------ order of first appearance
\* C15: the first yielded string selects the first alternative of every
\* group it reads, and an alternative b > 0 of a group is first selected
\* only after the alternative b - 1 of that group has been selected, so
\* first selections follow the written order of the alternatives.
C15_FirstAppearanceOrder ==
    /\ [][(call = "expandBraces") =>
            \A e \in seen' \ seen : e[2] = 0 \/ <<e[1], e[2] - 1>> \in seen]_vars
    /\ []((call = "expandBraces" /\ pc # "created") =>
            /\ \A e \in Selected(GetArray(str, FALSE), <<>>) : e \in seen /\ e[2] = 0
            /\ \A e \in seen : \A a \in 0..e[2] : <<e[1], a>> \in seen)

C15_Witness ==
    /\ call = "expandBraces" /\ pc = "done"
    /\ \E e \in seen : e[2] >= 1 /\ Len(e[1]) >= 3
    /\ \E e \in seen : e[2] >= 2

\* ------------------------------------------------ compass: loops and names
InLoop == call = "createCompassPoints" /\ pc = "loop"

Intercardinals == {"NE", "SE", "SW", "NW"}

\* the cardinal next to cardinal ci on the side of the offset cj
Neighbour(ci, cj) == Sides[((ci + (IF cj < 0 THEN 3 ELSE 1)) % 4) + 1]

\* the label lab follows the naming rule for cardinal ci and offset cj
NamedByMagnitude(lab, ci, cj) ==
    LET ja == IF cj < 0 THEN -cj ELSE cj
        c == Sides[ci + 1]
        nb == Neighbour(ci, cj)
    IN  CASE ja = 0 -> lab = c
          [] ja = 4 -> lab \in Intercardinals /\ lab \in {c \o nb, nb \o c}
          [] ja = 2 -> Len(lab) = 3 /\ \E ic \in Intercardinals :
                          lab = c \o ic /\ ic \in {c \o nb, nb \o c}
          [] OTHER -> \E x \in {c, c \o nb, nb \o c}, y \in {c, nb} :
                          /\ lab = x \o "b" \o y
                          /\ (x = c => y = nb)

\* C16 as stated: each of the 4 cardinals gets the offsets -5..+5, and a
\* point is named by the magnitude of its offset.
C16_Original ==
    [][InLoop =>
        /\ j \in -5..5
        /\ NamedByMagnitude(result'[(8 * i + j + 32) % 32], i, j)
        /\ IF j < 5 THEN i' = i /\ j' = j + 1
           ELSE i' = i + 1 /\ (pc' = "loop" => j' = -5)]_vars

\* C16 (amended): N and S get the 5 offsets on each side (-5..+5), E and W
\* the 2 offsets on each side (-2..+2); a point is named by the magnitude
\* of its offset: 1, 3, 5 a 'by' form with 'b' and the neighbouring
\* cardinal, 2 the three-letter form, 4 the intercardinal, 0 the cardinal.
C16_Amended ==
    [][InLoop =>
        LET from == IF i \in {0, 2} THEN 5 ELSE 2 IN
        /\ j \in -from..from
        /\ NamedByMagnitude(result'[(8 * i + j + 32) % 32], i, j)
        /\ IF j < from THEN i' = i /\ j' = j + 1
           ELSE i' = i + 1 /\ (pc' = "loop" => j' = -(IF i' \in {0, 2} THEN 5 ELSE 2))]_vars

C16_Witness ==
    /\ call = "createCompassPoints" /\ pc = "map" /\ i = 4
    /\ result[3] = "NEbN" /\ result[6] = "ENE" /\ result[21] = "SWbW" /\ result[28] = "NW"

\* the number of (cardinal, offset) pairs the loops visit before (ci, cj)
VisitedBefore(ci, cj) ==
    CASE ci = 0 -> cj + 5
      [] ci = 1 -> 11 + cj + 2
      [] ci = 2 -> 16 + cj + 5
      [] OTHER -> 27 + cj + 2

\* C20: the pairs (i, j) visited (j in -5..5 for N and S, -2..2 for E and
\* W) map by (8 * i + j + 32) mod 32 onto 0..31 one to one: an index is
\* never assigned twice and none is left out.
C20_Bijection ==
    /\ [](InLoop =>
            /\ i \in 0..3
            /\ (i \in {0, 2} => j \in -5..5) /\ (i \in {1, 3} => j \in -2..2)
            /\ Cardinality(DOMAIN result) = VisitedBefore(i, j))
    /\ [][InLoop =>
            /\ (8 * i + j + 32) % 32 \notin DOMAIN result
            /\ DOMAIN result' = DOMAIN result \cup {(8 * i + j + 32) % 32}
            /\ \A k \in DOMAIN result : result'[k] = result[k]]_vars
    /\ []((call = "createCompassPoints" /\ pc \in {"map", "returned"}) =>
            (DOMAIN result = 0..31 /\ Cardinality(DOMAIN result) = 32))

C20_Witness ==
    /\ call = "createCompassPoints" /\ pc = "returned"
    /\ DOMAIN result = 0..31 /\ DOMAIN points = 0..31
    /\ result[27] = "NWbW" /\ result[5] = "NEbE"
====
